---------------------------- MODULE Spec2Model ----------------------------
(* A model of the APML editor of libabbs (src/libabbs/src/apml/editor.rs): *)
(* ApmlEditor wraps a lossless token sequence and edits it in place.       *)
(* Token indexes are 0-based, as in the source; TLA+ sequences are         *)
(* 1-based, so the token with index i is toks[i + 1].                      *)
EXTENDS Integers, Sequences, FiniteSets, TLC

VARIABLES tokens, prev, op, result, panicked

vars == <<tokens, prev, op, result, panicked>>

(* ---------------------------------------------------------------------- *)
(* Bounds of the model                                                    *)
(* ---------------------------------------------------------------------- *)

\* The documents the editor wraps have at most this many lines.
MaxLines == 4

\* The texts rendered have at most this many units.
MaxUnits == 3

\* A sequence of calls starts from a document of at most this many lines
\* and makes at most this many calls.
MaxSeqLines == 2

MaxCalls == 3

(* ---------------------------------------------------------------------- *)
(* Tokens (lst::Token as the editor uses it: Space, Newline, Comment,     *)
(* Variable)                                                              *)
(* ---------------------------------------------------------------------- *)

Space == [kind |-> "Space"]

Newline == [kind |-> "Newline"]

Comment(text) == [kind |-> "Comment", text |-> text]

Assignment == "Assignment"

Variable(name, vop, value) ==
  [kind |-> "Variable", name |-> name, op |-> vop, value |-> value]

IsNewline(t) == t.kind = "Newline"

IsComment(t) == t.kind = "Comment"

IsVariable(t) == t.kind = "Variable"

\* A value as the parser left it in the source text (unquoted word).
RawValue(text) == [quote |-> "Unquoted", text |-> text]

\* ast::VariableValue::String
StringValue(text) == [kind |-> "String", text |-> text]

\* ast::VariableValue::lower: the canonical form of a string value is the
\* text inside double quotes.
Lower(value) == [quote |-> "Double", text |-> value.text]

(* ---------------------------------------------------------------------- *)
(* Inputs                                                                 *)
(* ---------------------------------------------------------------------- *)

\* Names given to find_var, append_var and replace_var; the wrapped
\* documents define "a" and "b" only.
Names == {"a", "b", "A"}

Values == {StringValue("a"), StringValue("$1")}

\* Option<&str>: <<>> is None, <<n>> is Some(n).
NoneOpt == <<>>

SomeOpt(n) == <<n>>

Afters == {NoneOpt} \cup {SomeOpt(n) : n \in Names}

\* The shapes of a source line, without its newline.
LineShapes ==
  { <<>>,
    <<Comment(" c")>>,
    <<Variable("a", Assignment, RawValue("b"))>>,
    <<Variable("b", Assignment, RawValue("c"))>>,
    <<Variable("a", Assignment, RawValue("b")), Space, Comment(" a")>>,
    <<Space, Variable("b", Assignment, RawValue("c"))>>,
    <<Space, Comment(" d")>> }

RECURSIVE JoinLines(_, _)
JoinLines(lines, trailing) ==
  IF Len(lines) = 0 THEN <<>>
  ELSE IF Len(lines) = 1
    THEN Head(lines) \o (IF trailing THEN <<Newline>> ELSE <<>>)
    ELSE Head(lines) \o <<Newline>> \o JoinLines(Tail(lines), trailing)

\* The token sequences of the documents of at most MaxLines lines, the
\* last line with or without its newline.
Documents ==
  { JoinLines(ls, tr) :
      ls \in UNION { [1..n -> LineShapes] : n \in 0..MaxLines },
      tr \in BOOLEAN }

(* ---------------------------------------------------------------------- *)
(* Operations of ApmlEditor                                               *)
(* ---------------------------------------------------------------------- *)

\* Vec::get with a 0-based index; None is modelled as a token of no kind.
NoToken == [kind |-> "None"]

Get(toks, i) == IF i >= 0 /\ i < Len(toks) THEN toks[i + 1] ELSE NoToken

NotFound == [found |-> FALSE]

RECURSIVE FindFrom(_, _, _)
FindFrom(toks, name, idx) ==
  IF idx >= Len(toks) THEN NotFound
  ELSE IF IsVariable(toks[idx + 1]) /\ toks[idx + 1].name = name
    THEN [found |-> TRUE, idx |-> idx, var |-> toks[idx + 1]]
    ELSE FindFrom(toks, name, idx + 1)

RECURSIVE FindLastFrom(_, _, _)
FindLastFrom(toks, name, idx) ==
  IF idx < 0 THEN NotFound
  ELSE IF IsVariable(toks[idx + 1]) /\ toks[idx + 1].name = name
    THEN [found |-> TRUE, idx |-> idx, var |-> toks[idx + 1]]
    ELSE FindLastFrom(toks, name, idx - 1)

\* A find_var that searches from the end and gives the last match.
FindVarLast(toks, name) == FindLastFrom(toks, name, Len(toks) - 1)

\* find_var: the first (index, definition) whose name equals `name`.
FindVar(toks, name) == FindFrom(toks, name, 0)

\* An ensure_end_newline that tests the last token for Some(Newline) only,
\* and so pushes a Newline onto an empty sequence.
EnsureEndNewlineOnEmpty(toks) ==
  IF ~(Len(toks) > 0 /\ IsNewline(toks[Len(toks)]))
    THEN Append(toks, Newline)
    ELSE toks

\* ensure_end_newline
EnsureEndNewline(toks) ==
  IF ~(Len(toks) = 0 \/ IsNewline(toks[Len(toks)]))
    THEN Append(toks, Newline)
    ELSE toks

\* iter().skip(from).take_while(not Newline).count()
RECURSIVE CountUntilNewline(_, _)
CountUntilNewline(toks, from) ==
  IF from >= Len(toks) \/ IsNewline(toks[from + 1]) THEN 0
  ELSE 1 + CountUntilNewline(toks, from + 1)

\* Vec::insert(index, t), 0-based, index <= len
Insert(toks, index, t) ==
  SubSeq(toks, 1, index) \o <<t>> \o SubSeq(toks, index + 1, Len(toks))

\* A push at the end without the call of ensure_end_newline.
PushAtEndNoEnsure(toks, token) == Append(Append(toks, token), Newline)

\* The tail of append_var_ast and of replace_var_ast.
PushAtEnd(toks, token) ==
  Append(Append(EnsureEndNewline(toks), token), Newline)

\* An append_var_ast whose insertion index lacks the `+ 1`: the new line
\* is put before the newline of the referenced line.
AppendVarAstBeforeNewline(toks, name, value, after) ==
  LET token == Variable(name, Assignment, Lower(value))
      f == IF after = NoneOpt THEN NotFound ELSE FindVar(toks, after[1])
  IN IF f.found
       THEN LET n == CountUntilNewline(toks, f.idx)
                index == f.idx + n
            IN IF index <= Len(toks)
                 THEN Insert(Insert(toks, index, Newline), index, token)
                 ELSE PushAtEnd(toks, token)
       ELSE PushAtEnd(toks, token)

\* An append_var_ast that does not call ensure_end_newline before it
\* pushes at the end.
AppendVarAstNoEnsure(toks, name, value, after) ==
  LET token == Variable(name, Assignment, Lower(value))
      f == IF after = NoneOpt THEN NotFound ELSE FindVar(toks, after[1])
  IN IF f.found
       THEN LET n == CountUntilNewline(toks, f.idx)
                index == f.idx + n + 1
            IN IF index <= Len(toks)
                 THEN Insert(Insert(toks, index, Newline), index, token)
                 ELSE Append(Append(toks, token), Newline)
       ELSE Append(Append(toks, token), Newline)

\* append_var_ast
AppendVarAst(toks, name, value, after) ==
  LET token == Variable(name, Assignment, Lower(value))
      f == IF after = NoneOpt THEN NotFound ELSE FindVar(toks, after[1])
  IN IF f.found
       THEN LET n == CountUntilNewline(toks, f.idx)
                index == f.idx + n + 1
            IN IF index <= Len(toks)
                 THEN Insert(Insert(toks, index, Newline), index, token)
                 ELSE PushAtEnd(toks, token)
       ELSE PushAtEnd(toks, token)

\* A replace_var_ast without the `return` after the replacement: it goes
\* on to push the token at the end.
ReplaceVarAstNoReturn(toks, name, value) ==
  LET token == Variable(name, Assignment, Lower(value))
      f == FindVar(toks, name)
  IN IF f.found
       THEN PushAtEnd([toks EXCEPT ![f.idx + 1] = token], token)
       ELSE PushAtEnd(toks, token)

\* A replace_var_ast that does not call ensure_end_newline before it
\* pushes at the end.
ReplaceVarAstNoEnsure(toks, name, value) ==
  LET token == Variable(name, Assignment, Lower(value))
      f == FindVar(toks, name)
  IN IF f.found
       THEN [toks EXCEPT ![f.idx + 1] = token]
       ELSE Append(Append(toks, token), Newline)

\* replace_var_ast
ReplaceVarAst(toks, name, value) ==
  LET token == Variable(name, Assignment, Lower(value))
      f == FindVar(toks, name)
  IN IF f.found
       THEN [toks EXCEPT ![f.idx + 1] = token]
       ELSE PushAtEnd(toks, token)

\* iter().skip(index).skip_while(not Newline).skip(1)
\*   .take_while(not Newline).any(Variable)
NextLineHasVariable(toks, index) ==
  LET first == index + CountUntilNewline(toks, index) + 1
      n == CountUntilNewline(toks, first)
  IN \E i \in first..(first + n - 1) : IsVariable(Get(toks, i))

\* The outcome of `a - b` on usize: with overflow checks (a debug build) a
\* negative difference panics; without them (a release build) it wraps to
\* a value near 2^64, beyond the length of any Vec, so that Vec::get gives
\* None.
SubOverflows(a, b) == a - b < 0

\* A scan that does not test the token at start - 3: it takes a comment
\* for a comment-only line whatever stands before it on its line.
RECURSIVE ScanCommentsNoLineCheck(_, _, _)
ScanCommentsNoLineCheck(toks, start, checks) ==
  IF SubOverflows(start, 1)
    THEN [panic |-> checks, start |-> start]
  ELSE IF ~IsNewline(Get(toks, start - 1))
    THEN [panic |-> FALSE, start |-> start]
  ELSE IF SubOverflows(start, 2)
    THEN [panic |-> checks, start |-> start]
  ELSE IF ~IsComment(Get(toks, start - 2))
    THEN [panic |-> FALSE, start |-> start]
  ELSE ScanCommentsNoLineCheck(toks, start - 2, checks)

\* The while loop of remove_var: steps `start` back over the lines that
\* hold one comment only. Each `&&` operand is evaluated only when the ones
\* before it matched.
RECURSIVE ScanComments(_, _, _)
ScanComments(toks, start, checks) ==
  IF SubOverflows(start, 1)
    THEN [panic |-> checks, start |-> start]
  ELSE IF ~IsNewline(Get(toks, start - 1))
    THEN [panic |-> FALSE, start |-> start]
  ELSE IF SubOverflows(start, 2)
    THEN [panic |-> checks, start |-> start]
  ELSE IF ~IsComment(Get(toks, start - 2))
    THEN [panic |-> FALSE, start |-> start]
  ELSE IF SubOverflows(start, 3)
    THEN [panic |-> checks, start |-> start]
  ELSE IF ~IsNewline(Get(toks, start - 3))
    THEN [panic |-> FALSE, start |-> start]
  ELSE ScanComments(toks, start - 2, checks)

\* Vec::drain(start..=end): panics when end + 1 exceeds the length.
DrainPanics(toks, start, end) == end + 1 > Len(toks)

Drain(toks, start, end) ==
  SubSeq(toks, 1, start) \o SubSeq(toks, end + 2, Len(toks))

\* remove_var; `checks` tells whether the build checks integer overflow.
\* A panic leaves the token sequence as it was. `start` and `end` are the
\* bounds of the range given to drain.
RemoveVar(toks, index, checks) ==
  LET after == CountUntilNewline(toks, index)
      scan ==
        IF SubOverflows(index, 2)
          THEN [panic |-> checks, start |-> index]
        ELSE IF IsComment(Get(toks, index - 2))
                /\ ~NextLineHasVariable(toks, index)
          THEN ScanComments(toks, index, checks)
          ELSE [panic |-> FALSE, start |-> index]
  IN IF scan.panic \/ DrainPanics(toks, scan.start, index + after)
       THEN [panic |-> TRUE, tokens |-> toks,
             start |-> scan.start, end |-> index + after]
       ELSE [panic |-> FALSE,
             tokens |-> Drain(toks, scan.start, index + after),
             start |-> scan.start, end |-> index + after]

(* ---------------------------------------------------------------------- *)
(* The editor as a state machine                                          *)
(* ---------------------------------------------------------------------- *)

Wrapped == [kind |-> "wrap"]

NoResult == [kind |-> "none"]

\* ApmlEditor::wrap
Init ==
  /\ tokens \in Documents
  /\ prev = tokens
  /\ op = Wrapped
  /\ result = NoResult
  /\ panicked = FALSE

Ready == op = Wrapped

DoFindVar ==
  \E name \in Names :
    /\ Ready
    /\ op' = [kind |-> "find_var", name |-> name]
    /\ result' = FindVar(tokens, name)
    /\ prev' = tokens
    /\ UNCHANGED <<tokens, panicked>>

DoEnsureEndNewline ==
  /\ Ready
  /\ op' = [kind |-> "ensure_end_newline"]
  /\ tokens' = EnsureEndNewline(tokens)
  /\ prev' = tokens
  /\ UNCHANGED <<result, panicked>>

DoAppendVar ==
  \E name \in Names, value \in Values, after \in Afters :
    /\ Ready
    /\ op' = [kind |-> "append_var", name |-> name, value |-> value,
              after |-> after]
    /\ tokens' = AppendVarAst(tokens, name, value, after)
    /\ prev' = tokens
    /\ UNCHANGED <<result, panicked>>

DoReplaceVar ==
  \E name \in Names, value \in Values :
    /\ Ready
    /\ op' = [kind |-> "replace_var", name |-> name, value |-> value]
    /\ tokens' = ReplaceVarAst(tokens, name, value)
    /\ prev' = tokens
    /\ UNCHANGED <<result, panicked>>

\* remove_var on the index of a Variable token (its precondition), in a
\* build with or without overflow checks.
DoRemoveVar ==
  \E index \in 0..(Len(tokens) - 1), checks \in BOOLEAN :
    /\ Ready
    /\ IsVariable(Get(tokens, index))
    /\ op' = [kind |-> "remove_var", index |-> index, checks |-> checks]
    /\ LET r == RemoveVar(tokens, index, checks)
       IN /\ tokens' = r.tokens
          /\ panicked' = r.panic
          /\ result' = [kind |-> "drain", start |-> r.start, end |-> r.end]
    /\ prev' = tokens

Next ==
  \/ DoFindVar
  \/ DoEnsureEndNewline
  \/ DoAppendVar
  \/ DoReplaceVar
  \/ DoRemoveVar

Spec == Init /\ [][Next]_vars

(* ---------------------------------------------------------------------- *)
(* Vocabulary of the properties, stated on token sequences without the    *)
(* editor's own operators                                                 *)
(* ---------------------------------------------------------------------- *)

\* The 0-based indexes of the Variable tokens named `name`.
VarIdxs(toks, name) ==
  { i \in 0..(Len(toks) - 1) :
      IsVariable(toks[i + 1]) /\ toks[i + 1].name = name }

HasVar(toks, name) == VarIdxs(toks, name) # {}

LowestIdx(toks, name) ==
  CHOOSE i \in VarIdxs(toks, name) : \A j \in VarIdxs(toks, name) : i <= j

\* toks[a..b], 0-based and inclusive.
Slice(toks, a, b) == SubSeq(toks, a + 1, b + 1)

\* toks without toks[a..b].
Without(toks, a, b) ==
  Slice(toks, 0, a - 1) \o Slice(toks, b + 1, Len(toks) - 1)

\* The index of the Newline that ends the line of token i, or the length
\* of the sequence when that line is the last and has no newline.
LineEnd(toks, i) ==
  CHOOSE e \in i..Len(toks) :
    /\ e = Len(toks) \/ IsNewline(toks[e + 1])
    /\ \A j \in i..(e - 1) : ~IsNewline(toks[j + 1])

\* The index of the first token of the line of token i.
LineStart(toks, i) ==
  CHOOSE b \in 0..i :
    /\ b = 0 \/ IsNewline(toks[b])
    /\ \A j \in b..(i - 1) : ~IsNewline(toks[j + 1])

\* Token k is a Comment and the only token of its line, a line that ends
\* with a newline.
IsCommentLine(toks, k) ==
  /\ k >= 0 /\ k + 1 < Len(toks)
  /\ IsComment(toks[k + 1])
  /\ k = 0 \/ IsNewline(toks[k])
  /\ IsNewline(toks[k + 2])

\* The number of lines in the maximal run of comment-only lines that ends
\* directly before the line of token i.
RunLines(toks, i) ==
  LET b == LineStart(toks, i)
  IN CHOOSE m \in 0..Len(toks) :
       /\ \A j \in 1..m : IsCommentLine(toks, b - 2 * j)
       /\ ~IsCommentLine(toks, b - 2 * (m + 1))

\* The index of the first token of that run (the line start of i when the
\* run is empty).
RunStart(toks, i) == LineStart(toks, i) - 2 * RunLines(toks, i)

\* The line directly after the line of token i holds a Variable token.
FollowingLineHasVar(toks, i) ==
  LET e == LineEnd(toks, i)
  IN /\ e < Len(toks)
     /\ \E k \in (e + 1)..(LineEnd(toks, e + 1) - 1) : IsVariable(toks[k + 1])

NewToken == Variable(op.name, Assignment, Lower(op.value))

(* ---------------------------------------------------------------------- *)
(* Properties                                                             *)
(* ---------------------------------------------------------------------- *)

ReplacedExisting == op.kind = "replace_var" /\ HasVar(prev, op.name)

\* C1: replace_var(name, value), when a Variable token named `name`
\* exists, replaces the token with the lowest index of that name by
\* Variable(name, Assignment, lowered value); the sequence keeps its length
\* and the token at every other index is unchanged.
C1_ReplaceInPlace ==
  ReplacedExisting =>
    LET i == LowestIdx(prev, op.name)
    IN /\ Len(tokens) = Len(prev)
       /\ tokens[i + 1] = NewToken
       /\ \A j \in 0..(Len(prev) - 1) : j # i => tokens[j + 1] = prev[j + 1]

\* C1 witness: a replace_var that changed the first of two definitions of
\* the name, in a document that holds a comment too.
C1_Witness ==
  /\ ReplacedExisting
  /\ Cardinality(VarIdxs(prev, op.name)) >= 2
  /\ \E k \in 1..Len(prev) : IsComment(prev[k])
  /\ tokens # prev
  /\ LowestIdx(prev, op.name) > 0

AppendedAfter ==
  /\ op.kind = "append_var"
  /\ op.after # NoneOpt
  /\ HasVar(prev, op.after[1])

\* C2: append_var(name, value, Some(after)), when a variable named `after`
\* exists: the new Variable token is the first token of the line directly
\* after the line of the lowest-index variable named `after`, a Newline
\* follows it, and the old tokens keep their order; also when that line is
\* the last one, with or without its newline.
C2_InsertAfterLine ==
  AppendedAfter =>
    LET i == LowestIdx(prev, op.after[1])
        e == LineEnd(prev, i)
    IN /\ Slice(tokens, 0, e - 1) = Slice(prev, 0, e - 1)
       /\ e + 2 < Len(tokens)
       /\ tokens[e + 1] = Newline
       /\ tokens[e + 2] = NewToken
       /\ tokens[e + 3] = Newline
       /\ Slice(tokens, e + 3, Len(tokens) - 1)
            = Slice(prev, e + 1, Len(prev) - 1)

\* C2 witness: the referenced variable's line is the last line, it ends
\* with a trailing comment and has no newline.
C2_Witness ==
  /\ AppendedAfter
  /\ LET i == LowestIdx(prev, op.after[1])
     IN /\ LineEnd(prev, i) = Len(prev)
        /\ IsComment(prev[Len(prev)])
        /\ i > 0

\* C2, a second case reached: the referenced line is followed by other
\* lines.
C2_WitnessMiddle ==
  /\ AppendedAfter
  /\ LET i == LowestIdx(prev, op.after[1])
     IN /\ LineEnd(prev, i) + 1 < Len(prev)
        /\ LineEnd(prev, i) > i

\* C2, a third case reached: the referenced line is the last and ends with
\* its newline.
C2_WitnessLastWithNewline ==
  /\ AppendedAfter
  /\ LineEnd(prev, LowestIdx(prev, op.after[1])) + 1 = Len(prev)

AppendedAtEnd ==
  /\ op.kind = "append_var"
  /\ op.after = NoneOpt \/ ~HasVar(prev, op.after[1])

\* C3: append_var(name, value, after), when `after` is absent or names no
\* variable: the result is the old sequence, then one Newline only if the
\* old sequence was non-empty and did not end with Newline, then
\* Variable(name, value) and Newline.
C3_AppendAtEnd ==
  AppendedAtEnd =>
    tokens =
      prev
      \o (IF Len(prev) > 0 /\ ~IsNewline(prev[Len(prev)])
            THEN <<Newline>> ELSE <<>>)
      \o <<NewToken, Newline>>

\* C3 witness: `after` names a variable the document does not define, and
\* the document does not end with a newline.
C3_Witness ==
  /\ AppendedAtEnd
  /\ op.after # NoneOpt
  /\ Len(prev) > 0 /\ ~IsNewline(prev[Len(prev)])
  /\ Len(tokens) = Len(prev) + 3

\* C3, further cases reached: the empty document, and a document that ends
\* with a newline.
C3_WitnessEmpty == AppendedAtEnd /\ prev = <<>> /\ Len(tokens) = 2

C3_WitnessNewline ==
  AppendedAtEnd /\ Len(prev) > 0 /\ IsNewline(prev[Len(prev)])

Removed == op.kind = "remove_var"

\* C4 as claimed: remove_var(index) on a Variable token whose preceding
\* line is not a comment-only line removes exactly the tokens from `index`
\* through the next Newline, and nothing else.
C4_RemoveLineClaim ==
  (Removed /\ RunLines(prev, op.index) = 0) =>
    /\ ~panicked
    /\ tokens = Without(prev, op.index, LineEnd(prev, op.index))

\* C5 as claimed: remove_var(index), when the lines directly before the
\* variable's line hold one Comment each and the line directly after holds
\* no Variable, removes every line of that maximal run with the variable,
\* wherever the run starts. Stated of the calls that complete, so that a
\* violation shows a run that was kept.
C5_RemoveCommentRunClaim ==
  (/\ Removed /\ ~panicked
   /\ RunLines(prev, op.index) > 0
   /\ ~FollowingLineHasVar(prev, op.index)) =>
    /\ result.start <= RunStart(prev, op.index)
    /\ result.end >= op.index
    /\ tokens = Without(prev, result.start, result.end)

\* C6: remove_var removes no unrelated comment: a Comment it removes is on
\* the variable's line after the variable, or is the only token of a line
\* of the run of comment-only lines directly before the variable's line;
\* no comment after the variable's line is removed, and none before it
\* when the following line holds a Variable.
C6_NoUnrelatedComment ==
  Removed =>
    IF panicked THEN tokens = prev
    ELSE
      LET i == op.index
          b == LineStart(prev, i)
          e == LineEnd(prev, i)
      IN /\ result.start <= i /\ i <= result.end
         /\ result.end < Len(prev)
         /\ tokens = Without(prev, result.start, result.end)
         /\ result.end <= e
         /\ \A k \in result.start..result.end :
              IsComment(prev[k + 1]) =>
                \/ i < k /\ k < e
                \/ /\ k < b
                   /\ \E j \in 1..RunLines(prev, i) : k = b - 2 * j
                   /\ ~FollowingLineHasVar(prev, i)

\* C6 witness: a removal that took a comment-only line with the variable
\* and kept the trailing comment of the line before it.
C6_Witness ==
  /\ Removed /\ ~panicked
  /\ result.start < op.index
  /\ result.start >= 2
  /\ IsComment(prev[result.start - 1])
  /\ Len(tokens) < Len(prev)

\* C6, a second case reached: the following line holds a Variable and the
\* comment line before the removed variable is kept.
C6_WitnessFollowingVar ==
  /\ Removed /\ ~panicked
  /\ RunLines(prev, op.index) > 0
  /\ FollowingLineHasVar(prev, op.index)
  /\ result.start = op.index

\* C7 as claimed: the mutation operations complete without failure for
\* every document, and remove_var for every index of a Variable token.
C7_InfallibleClaim == ~panicked

Found == op.kind = "find_var"

\* C8: find_var(name) returns the index, counted over all tokens, and the
\* definition of the lowest-index Variable token whose name is exactly
\* `name`; it returns none if and only if no Variable token has that name.
C8_FindLowest ==
  Found =>
    /\ result.found <=> HasVar(tokens, op.name)
    /\ result.found =>
         /\ result.idx = LowestIdx(tokens, op.name)
         /\ result.var = tokens[result.idx + 1]
         /\ result.var.name = op.name

\* C8 witness: the name is defined twice, the first time behind other
\* tokens.
C8_Witness ==
  /\ Found /\ result.found
  /\ result.idx >= 2
  /\ Cardinality(VarIdxs(tokens, op.name)) >= 2

\* C8, a second case reached: a name that differs from a defined one by
\* case only is not found.
C8_WitnessCase ==
  Found /\ op.name = "A" /\ HasVar(tokens, "a") /\ ~result.found

ReplacedMissing == op.kind = "replace_var" /\ ~HasVar(prev, op.name)

\* C9: replace_var(name, value), when no Variable token is named `name`,
\* gives the token sequence that append_var(name, value, None) gives on the
\* same document.
C9_ReplaceIsAppend ==
  ReplacedMissing => tokens = AppendVarAst(prev, op.name, op.value, NoneOpt)

\* C9 witness: the name is missing from a document that defines another
\* variable and does not end with a newline.
C9_Witness ==
  /\ ReplacedMissing
  /\ \E k \in 1..Len(prev) : IsVariable(prev[k])
  /\ ~IsNewline(prev[Len(prev)])
  /\ Len(tokens) = Len(prev) + 3

Ensured == op.kind = "ensure_end_newline"

\* C10: ensure_end_newline appends one Newline when the sequence is
\* non-empty and does not end with Newline, and else leaves it unchanged;
\* no existing token changes, and a second application changes nothing.
C10_EnsureEndNewline ==
  Ensured =>
    /\ tokens =
         IF Len(prev) > 0 /\ ~IsNewline(prev[Len(prev)])
           THEN prev \o <<Newline>> ELSE prev
    /\ EnsureEndNewline(tokens) = tokens

\* C10 witness: a Newline was appended.
C10_Witness == Ensured /\ Len(tokens) = Len(prev) + 1

\* C10, further cases reached: the empty document stays empty, and a
\* document that ends with a newline is unchanged.
C10_WitnessEmpty == Ensured /\ prev = <<>> /\ tokens = <<>>

C10_WitnessNoop == Ensured /\ Len(prev) > 0 /\ tokens = prev

(* ---------------------------------------------------------------------- *)
(* Rendering of the syntax tree of src/libabbs/src/apml/ast.rs            *)
(* (the ToString implementations). Strings are TLA+ strings, \o is        *)
(* their concatenation.                                                   *)
(* ---------------------------------------------------------------------- *)

\* iter().map(f).collect::<Vec<_>>().join("") is written out per type
\* below, as a fold from the left.

\* LiteralPart
LitString(text) == [kind |-> "String", text |-> text]

LitEscaped(ch) == [kind |-> "Escaped", ch |-> ch]

LineContinuation == [kind |-> "LineContinuation"]

\* GlobPart
GlobString(text) == [kind |-> "String", text |-> text]

GlobEscaped(ch) == [kind |-> "Escaped", ch |-> ch]

AnyString == [kind |-> "AnyString"]

AnyChar == [kind |-> "AnyChar"]

GlobRange(range) == [kind |-> "Range", range |-> range]

\* Word
Literal(parts) == [kind |-> "Literal", parts |-> parts]

UnbracedVariable(name) == [kind |-> "UnbracedVariable", name |-> name]

\* Word::BracedVariable(BracedExpansion { name, modifier }); the modifier
\* is an Option: <<>> is None, <<m>> is Some(m).
BracedVariable(name, modifier) ==
  [kind |-> "BracedVariable", name |-> name, modifier |-> modifier]

\* TextUnit
Unquoted(words) == [kind |-> "Unquoted", words |-> words]

SingleQuote(text) == [kind |-> "SingleQuote", text |-> text]

DuobleQuote(words) == [kind |-> "DuobleQuote", words |-> words]

\* impl ToString for LiteralPart
LiteralPartToString(part) ==
  CASE part.kind = "String" -> part.text
    [] part.kind = "Escaped" -> "\\" \o part.ch
    [] part.kind = "LineContinuation" -> "\\\n"

\* impl ToString for GlobPart
GlobPartToString(part) ==
  CASE part.kind = "String" -> part.text
    [] part.kind = "Escaped" -> "\\" \o part.ch
    [] part.kind = "AnyString" -> "*"
    [] part.kind = "AnyChar" -> "?"
    [] part.kind = "Range" -> "[" \o part.range \o "]"

RECURSIVE LiteralPartsToString(_)
LiteralPartsToString(parts) ==
  IF parts = <<>> THEN ""
  ELSE LiteralPartToString(Head(parts)) \o LiteralPartsToString(Tail(parts))

\* impl ToString for GlobPattern
RECURSIVE GlobPatternToString(_)
GlobPatternToString(parts) ==
  IF parts = <<>> THEN ""
  ELSE GlobPartToString(Head(parts)) \o GlobPatternToString(Tail(parts))

RECURSIVE TextToString(_)
RECURSIVE WordsToString(_)

\* impl ToString for ExpansionModifier; Length is rendered by
\* BracedExpansion and unreachable here.
ExpansionModifierToString(m) ==
  CASE m.kind = "Substring" ->
         IF m.length = <<>> THEN ":" \o ToString(m.offset)
         ELSE ":" \o ToString(m.offset) \o ":" \o ToString(m.length[1])
    [] m.kind = "StripShortestPrefix" -> "#" \o GlobPatternToString(m.pattern)
    [] m.kind = "StripLongestPrefix" -> "##" \o GlobPatternToString(m.pattern)
    [] m.kind = "StripShortestSuffix" -> "%" \o GlobPatternToString(m.pattern)
    [] m.kind = "StripLongestSuffix" -> "%%" \o GlobPatternToString(m.pattern)
    [] m.kind = "ReplaceOnce" ->
         "/" \o GlobPatternToString(m.pattern) \o "/" \o TextToString(m.string)
    [] m.kind = "ReplaceAll" ->
         "//" \o GlobPatternToString(m.pattern) \o "/" \o TextToString(m.string)
    [] m.kind = "ReplacePrefix" ->
         "/#" \o GlobPatternToString(m.pattern) \o "/" \o TextToString(m.string)
    [] m.kind = "ReplaceSuffix" ->
         "/%" \o GlobPatternToString(m.pattern) \o "/" \o TextToString(m.string)
    [] m.kind = "UpperOnce" -> "^" \o GlobPatternToString(m.pattern)
    [] m.kind = "UpperAll" -> "^^" \o GlobPatternToString(m.pattern)
    [] m.kind = "LowerOnce" -> "," \o GlobPatternToString(m.pattern)
    [] m.kind = "LowerAll" -> ",," \o GlobPatternToString(m.pattern)
    [] m.kind = "ErrorOnUnset" -> ":?" \o TextToString(m.text)
    [] m.kind = "WhenUnset" -> ":-" \o TextToString(m.text)
    [] m.kind = "WhenSet" -> ":+" \o TextToString(m.text)

\* impl ToString for BracedExpansion
BracedExpansionToString(exp) ==
  IF exp.modifier # <<>> /\ exp.modifier[1].kind = "Length"
    THEN "#" \o exp.name
  ELSE IF exp.modifier = <<>> THEN exp.name
  ELSE exp.name \o ExpansionModifierToString(exp.modifier[1])

\* impl ToString for Word
WordToString(word) ==
  CASE word.kind = "Literal" -> LiteralPartsToString(word.parts)
    [] word.kind = "UnbracedVariable" -> "$" \o word.name
    [] word.kind = "BracedVariable" ->
         "${" \o BracedExpansionToString(word) \o "}"

WordsToString(words) ==
  IF words = <<>> THEN ""
  ELSE WordToString(Head(words)) \o WordsToString(Tail(words))

\* impl ToString for TextUnit
TextUnitToString(unit) ==
  CASE unit.kind = "Unquoted" -> WordsToString(unit.words)
    [] unit.kind = "SingleQuote" -> unit.text
    [] unit.kind = "DuobleQuote" -> "\"" \o WordsToString(unit.words) \o "\""

\* impl ToString for Text
TextToString(units) ==
  IF units = <<>> THEN ""
  ELSE TextUnitToString(Head(units)) \o TextToString(Tail(units))

\* The words the rendered units are made of.
WordChoices ==
  { <<Literal(<<LitString("abc")>>)>>,
    <<Literal(<<LitString("a"), LitEscaped("$"), LineContinuation>>)>>,
    <<Literal(<<LitString("abc")>>), UnbracedVariable("0")>>,
    <<BracedVariable("v", <<>>)>>,
    <<BracedVariable("v", <<[kind |-> "Length"]>>)>>,
    <<BracedVariable("v",
        <<[kind |-> "Substring", offset |-> 1, length |-> <<2>>]>>)>>,
    <<BracedVariable("v",
        <<[kind |-> "StripLongestSuffix",
           pattern |-> <<GlobString("."), AnyString, AnyChar,
                         GlobRange("0-9"), GlobEscaped("*")>>]>>)>>,
    <<BracedVariable("v",
        <<[kind |-> "ReplaceAll", pattern |-> <<GlobString("-")>>,
           string |-> <<SingleQuote("_")>>]>>)>>,
    <<BracedVariable("v",
        <<[kind |-> "WhenUnset",
           text |-> <<Unquoted(<<Literal(<<LitString("d")>>)>>)>>]>>)>> }

UnitChoices ==
  {Unquoted(w) : w \in WordChoices}
    \cup {DuobleQuote(w) : w \in WordChoices}
    \cup {SingleQuote("123"), SingleQuote("")}

\* The texts of at most MaxUnits units.
Texts == UNION { [1..n -> UnitChoices] : n \in 0..MaxUnits }

\* A Text is built, then rendered: `op` holds the value, `result` the
\* string to_string returned. The editor's token sequence takes no part.
TextInit ==
  /\ op \in { [kind |-> "text", text |-> t] : t \in Texts }
  /\ result = NoResult
  /\ tokens = <<>>
  /\ prev = <<>>
  /\ panicked = FALSE

DoTextToString ==
  /\ op.kind = "text"
  /\ op' = [kind |-> "to_string", text |-> op.text]
  /\ result' = [kind |-> "string", string |-> TextToString(op.text)]
  /\ UNCHANGED <<tokens, prev, panicked>>

TextNext == DoTextToString

TextSpec == TextInit /\ [][TextNext]_vars

\* The rendering of a unit as the documentation of TextUnit gives it:
\* <words>, '<text>', "<words>".
RECURSIVE DocumentedText(_)
DocumentedText(units) ==
  IF units = <<>> THEN ""
  ELSE (CASE Head(units).kind = "Unquoted" -> WordsToString(Head(units).words)
          [] Head(units).kind = "SingleQuote" ->
               "'" \o Head(units).text \o "'"
          [] Head(units).kind = "DuobleQuote" ->
               "\"" \o WordsToString(Head(units).words) \o "\"")
       \o DocumentedText(Tail(units))

Rendered == op.kind = "to_string"

\* C11 as claimed: a Text renders as the concatenation, in order, of its
\* units' renderings, a SingleQuote unit as its content between single
\* quotes, a DuobleQuote unit as its words between double quotes, an
\* Unquoted unit as its words bare; [Unquoted(abc), SingleQuote(123)]
\* renders as abc'123'.
C11_RenderClaim ==
  Rendered =>
    /\ result.string = DocumentedText(op.text)
    /\ op.text = <<Unquoted(<<Literal(<<LitString("abc")>>)>>),
                   SingleQuote("123")>>
         => result.string = "abc'123'"

(* ---------------------------------------------------------------------- *)
(* Sequences of calls on one editor                                       *)
(* ---------------------------------------------------------------------- *)

SeqDocuments ==
  { JoinLines(ls, tr) :
      ls \in UNION { [1..n -> LineShapes] : n \in 0..MaxSeqLines },
      tr \in BOOLEAN }

\* The names and the value the calls of a sequence give.
SeqNames == {"a", "b"}

SeqAfters == {NoneOpt} \cup {SomeOpt(n) : n \in SeqNames}

SeqValues == {StringValue("a")}

\* The index at which append_var_ast puts its token: behind the line of
\* `after` when that variable exists and the index is within the Vec, else
\* at the end, behind the newline ensure_end_newline leaves there.
InsertIndex(toks, after) ==
  LET f == IF after = NoneOpt THEN NotFound ELSE FindVar(toks, after[1])
      index == f.idx + CountUntilNewline(toks, f.idx) + 1
  IN IF f.found /\ index <= Len(toks)
       THEN index
       ELSE Len(EnsureEndNewline(toks))

\* In a sequence of calls `result` follows the tokens the calls inserted:
\* `at` holds the indexes of the Variable tokens that append_var_ast, or
\* the append path of replace_var_ast, put into the sequence and that are
\* still in it; `joined` holds those of them that a remove_var has since
\* joined to what stood before the removed variable on its line; `new`
\* holds the index the last call inserted at, if it inserted; `calls`
\* counts the calls.
Tracking(at, joined, new, calls) ==
  [kind |-> "inserted", at |-> at, joined |-> joined, new |-> new,
   calls |-> calls]

\* Two tokens were inserted at index p: the indexes from p on move by two.
ShiftInsert(at, p) == {IF i < p THEN i ELSE i + 2 : i \in at}

AfterInsert(at, p) == ShiftInsert(at, p) \cup {p}

\* The tokens s..e were drained.
AfterDrain(at, s, e) ==
  {i \in at : i < s} \cup {i - (e - s + 1) : i \in {j \in at : j > e}}

\* The drain of s..e from toks began behind other tokens of its line, and
\* the token behind the range, an inserted one, now follows them: its new
\* index is s.
JoinedByDrain(toks, at, s, e) ==
  IF s > 0 /\ ~IsNewline(toks[s]) /\ (e + 1) \in at THEN {s} ELSE {}

SeqInit ==
  /\ tokens \in SeqDocuments
  /\ prev = <<>>
  /\ op = Wrapped
  /\ result = Tracking({}, {}, <<>>, 0)
  /\ panicked = FALSE

\* A call is made while the program has not panicked.
CanCall == ~panicked /\ result.calls < MaxCalls

SeqEnsureEndNewline ==
  /\ CanCall
  /\ op' = [kind |-> "ensure_end_newline"]
  /\ tokens' = EnsureEndNewline(tokens)
  /\ result' = Tracking(result.at, result.joined, <<>>, result.calls + 1)
  /\ UNCHANGED <<prev, panicked>>

SeqAppendVar ==
  \E name \in SeqNames, value \in SeqValues, after \in SeqAfters :
    /\ CanCall
    /\ op' = [kind |-> "append_var"]
    /\ tokens' = AppendVarAst(tokens, name, value, after)
    /\ LET p == InsertIndex(tokens, after)
       IN result' = Tracking(AfterInsert(result.at, p),
                             ShiftInsert(result.joined, p), <<p>>,
                             result.calls + 1)
    /\ UNCHANGED <<prev, panicked>>

SeqReplaceVar ==
  \E name \in SeqNames, value \in SeqValues :
    /\ CanCall
    /\ op' = [kind |-> "replace_var"]
    /\ tokens' = ReplaceVarAst(tokens, name, value)
    /\ result' =
         IF FindVar(tokens, name).found
           THEN Tracking(result.at, result.joined, <<>>, result.calls + 1)
           ELSE LET p == InsertIndex(tokens, NoneOpt)
                IN Tracking(AfterInsert(result.at, p),
                            ShiftInsert(result.joined, p), <<p>>,
                            result.calls + 1)
    /\ UNCHANGED <<prev, panicked>>

SeqRemoveVar ==
  \E index \in 0..(Len(tokens) - 1), checks \in BOOLEAN :
    /\ CanCall
    /\ IsVariable(Get(tokens, index))
    /\ op' = [kind |-> "remove_var"]
    /\ LET r == RemoveVar(tokens, index, checks)
       IN /\ tokens' = r.tokens
          /\ panicked' = r.panic
          /\ result' =
               IF r.panic
                 THEN Tracking(result.at, result.joined, <<>>,
                               result.calls + 1)
                 ELSE Tracking(
                        AfterDrain(result.at, r.start, r.end),
                        AfterDrain(result.joined, r.start, r.end)
                          \cup JoinedByDrain(tokens, result.at, r.start,
                                             r.end),
                        <<>>, result.calls + 1)
    /\ UNCHANGED prev

SeqNext ==
  \/ SeqEnsureEndNewline
  \/ SeqAppendVar
  \/ SeqReplaceVar
  \/ SeqRemoveVar

SeqSpec == SeqInit /\ [][SeqNext]_vars

\* No line holds two Variable tokens: a Newline stands between any two.
OneVariablePerLine ==
  \A i \in 1..Len(tokens), j \in 1..Len(tokens) :
    (i < j /\ IsVariable(tokens[i]) /\ IsVariable(tokens[j])) =>
      \E k \in (i + 1)..(j - 1) : IsNewline(tokens[k])

\* The token with index i is a Variable and a Newline follows it.
EndsItsLine(i) ==
  /\ i + 1 < Len(tokens)
  /\ IsVariable(tokens[i + 1])
  /\ IsNewline(tokens[i + 2])

\* The token with index i is the first of its line.
StartsItsLine(i) == i = 0 \/ IsNewline(tokens[i])

InSequence == result.kind = "inserted"

\* C12 as claimed: from a document with at most one Variable per line,
\* after any sequence of calls every line holds at most one Variable, and
\* every Variable token a call inserted is followed by a Newline and is
\* the first token of its line.
C12_LineShapeClaim ==
  InSequence =>
    /\ OneVariablePerLine
    /\ \A i \in result.at : EndsItsLine(i) /\ StartsItsLine(i)

\* C12, amended: after any sequence of calls every line holds at most one
\* Variable, and every inserted Variable token still in the sequence is
\* followed by a Newline and is the first token of its line, unless a
\* remove_var has since removed, from the line directly before it, a
\* variable that other tokens preceded on that line: those tokens then
\* stand before the inserted token, which is no longer first.
C12_LineShape ==
  InSequence =>
    /\ OneVariablePerLine
    /\ result.joined \subseteq result.at
    /\ \A i \in result.at :
         /\ EndsItsLine(i)
         /\ StartsItsLine(i) <=> i \notin result.joined
    /\ result.new # <<>> =>
         result.new[1] \in result.at /\ result.new[1] \notin result.joined

\* C12 witness: after a remove_var one inserted Variable token stands
\* behind the spaces that the removed line left, followed by its Newline,
\* and another inserted token is still the first of its line.
C12_Witness ==
  /\ InSequence
  /\ op.kind = "remove_var" /\ ~panicked
  /\ \E i \in result.at : ~StartsItsLine(i) /\ EndsItsLine(i)
  /\ \E i \in result.at : StartsItsLine(i) /\ i > 0

\* C12, a case reached: inserted tokens are still the first of their
\* lines after a remove_var of a variable that began its line.
C12_WitnessKept ==
  /\ InSequence
  /\ op.kind = "remove_var" /\ ~panicked
  /\ result.calls = MaxCalls
  /\ Cardinality(result.at) >= 2
  /\ result.joined = {}

\* C12, further cases reached: a token inserted behind the line of a
\* variable, and one inserted by replace_var, after other calls.
C12_WitnessAppend ==
  /\ InSequence /\ op.kind = "append_var"
  /\ result.calls >= 2
  /\ result.new[1] + 2 < Len(tokens)
  /\ Cardinality(result.at) >= 2

C12_WitnessReplace ==
  /\ InSequence /\ op.kind = "replace_var"
  /\ result.new # <<>> /\ result.calls >= 2

=============================================================================
